---- MODULE Spec2Model ----
(***************************************************************************)
(* Model of normalize_line_endings.py: a directory walker that selects     *)
(* text files by name and rewrites CRLF / CR line terminators as LF.       *)
(*                                                                         *)
(* File names are sequences of one-character strings, file contents are    *)
(* sequences of byte values (0..255), decoded text is a sequence of        *)
(* Unicode code points.                                                    *)
(***************************************************************************)
EXTENDS Integers, Sequences, FiniteSets, TLC

(***************************************************************************)
(* Bounds of the model                                                     *)
(***************************************************************************)
\* longest file content enumerated byte by byte
MaxLen == 3
\* longest file name enumerated character by character
MaxNameLen == 4
\* number of successive invocations of the tool on the same tree
MaxRuns == 2
\* most bytes that reach the disk when a write fails half way
MaxShort == 1

(***************************************************************************)
(* Program constants                                                       *)
(***************************************************************************)
CR == 13
LF == 10

EXTENSIONS ==
    { <<".","j","s">>, <<".","j","s","x">>, <<".","t","s">>, <<".","t","s","x">>,
      <<".","p","y">>, <<".","s","h">>, <<".","b","a","s","h">>,
      <<".","j","s","o","n">>, <<".","j","s","o","n","c">>,
      <<".","c","s","s">>, <<".","s","c","s","s">>, <<".","s","a","s","s">>, <<".","l","e","s","s">>,
      <<".","h","t","m","l">>, <<".","h","t","m">>, <<".","x","m","l">>, <<".","s","v","g">>,
      <<".","m","d">>, <<".","m","a","r","k","d","o","w","n">>, <<".","t","x","t">>,
      <<".","y","m","l">>, <<".","y","a","m","l">>,
      <<".","e","n","v">>, <<".","g","i","t","i","g","n","o","r","e">>,
      <<".","g","i","t","a","t","t","r","i","b","u","t","e","s">>,
      <<".","s","q","l">> }

EXCLUDED_DIRS ==
    { "node_modules", ".git", "dist", "build", "__pycache__",
      ".next", "out", "coverage", ".cache", "venv", "env" }

\* the literal set of line 37
DOTFILES ==
    { <<".","e","n","v">>, <<".","g","i","t","i","g","n","o","r","e">>,
      <<".","g","i","t","a","t","t","r","i","b","u","t","e","s">> }

(***************************************************************************)
(* pathlib / str helpers used by should_process_file                       *)
(***************************************************************************)
UpperLetters ==
    <<"A","B","C","D","E","F","G","H","I","J","K","L","M",
      "N","O","P","Q","R","S","T","U","V","W","X","Y","Z">>
LowerLetters ==
    <<"a","b","c","d","e","f","g","h","i","j","k","l","m",
      "n","o","p","q","r","s","t","u","v","w","x","y","z">>

LowerChar(c) ==
    IF \E i \in DOMAIN UpperLetters : UpperLetters[i] = c
    THEN LowerLetters[CHOOSE i \in DOMAIN UpperLetters : UpperLetters[i] = c]
    ELSE c

\* str.lower()
Lower(s) == [i \in DOMAIN s |-> LowerChar(s[i])]

\* str.rfind('.') as a 1-based index, 0 when there is no dot
RFindDot(name) ==
    IF \E i \in DOMAIN name : name[i] = "."
    THEN CHOOSE i \in DOMAIN name :
            name[i] = "." /\ \A j \in DOMAIN name : name[j] = "." => j <= i
    ELSE 0

\* PurePath.suffix: the last dot and what follows it, unless that dot is the
\* first or the last character of the name
Suffix(name) ==
    LET i == RFindDot(name)
    IN  IF 1 < i /\ i < Len(name) THEN SubSeq(name, i, Len(name)) ELSE <<>>

\* str.startswith('.')
StartsWithDot(name) == Len(name) >= 1 /\ name[1] = "."

(***************************************************************************)
(* File selector                                                           *)
(***************************************************************************)
\* variant: the extension is compared without lower-casing it
should_process_file_case_sensitive(name) ==
    IF Suffix(name) \notin EXTENSIONS
    THEN IF Suffix(name) = <<>> /\ StartsWithDot(name)
         THEN name \in DOTFILES
         ELSE FALSE
    ELSE TRUE

should_process_file(name) ==
    IF Lower(Suffix(name)) \notin EXTENSIONS
    THEN IF Suffix(name) = <<>> /\ StartsWithDot(name)
         THEN name \in DOTFILES
         ELSE FALSE
    ELSE TRUE

(***************************************************************************)
(* Codecs: bytes.decode('utf-8'), bytes.decode('latin-1'),                 *)
(* str.encode('utf-8').  A decode or encode result is a record whose ok    *)
(* field is FALSE when the codec raises.                                   *)
(***************************************************************************)
\* the value of a one-element set: binds an intermediate result once
TheOne(S) == CHOOSE x \in S : TRUE

IsCont(b) == 128 <= b /\ b <= 191

\* The well-formed UTF-8 sequence at the head of the non-empty byte
\* sequence b: n is its length (0 when the head is ill-formed), cp its
\* code point.
Utf8Head(b) ==
    LET b1 == b[1]
        n  == Len(b)
    IN  IF b1 < 128 THEN [n |-> 1, cp |-> b1]
        ELSE IF 194 <= b1 /\ b1 <= 223 /\ n >= 2 /\ IsCont(b[2])
        THEN [n |-> 2, cp |-> (b1 - 192) * 64 + (b[2] - 128)]
        ELSE IF 224 <= b1 /\ b1 <= 239 /\ n >= 3 /\ IsCont(b[2]) /\ IsCont(b[3])
                /\ (b1 = 224 => b[2] >= 160)
                /\ (b1 = 237 => b[2] <= 159)
        THEN [n |-> 3, cp |-> (b1 - 224) * 4096 + (b[2] - 128) * 64 + (b[3] - 128)]
        ELSE IF 240 <= b1 /\ b1 <= 244 /\ n >= 4
                /\ IsCont(b[2]) /\ IsCont(b[3]) /\ IsCont(b[4])
                /\ (b1 = 240 => b[2] >= 144)
                /\ (b1 = 244 => b[2] <= 143)
        THEN [n |-> 4, cp |-> (b1 - 240) * 262144 + (b[2] - 128) * 4096
                               + (b[3] - 128) * 64 + (b[4] - 128)]
        ELSE [n |-> 0, cp |-> 0]

\* the decoder's loop: bytes from position i on, acc the text decoded so far
RECURSIVE Utf8DecodeFrom(_, _, _)
Utf8DecodeFrom(b, i, acc) ==
    IF i > Len(b) THEN [ok |-> TRUE, text |-> acc]
    ELSE TheOne({ IF h.n = 0 THEN [ok |-> FALSE, text |-> <<>>]
                  ELSE Utf8DecodeFrom(b, i + h.n, Append(acc, h.cp)) :
                  h \in {Utf8Head(SubSeq(b, i, Len(b)))} })

Utf8Decode(b) == Utf8DecodeFrom(b, 1, <<>>)

\* latin-1 maps byte value v to code point U+00vv and never raises
Latin1Decode(b) == [ok |-> TRUE, text |-> [i \in DOMAIN b |-> b[i]]]

Utf8EncodeChar(cp) ==
    IF cp < 128 THEN <<cp>>
    ELSE IF cp < 2048 THEN <<192 + (cp \div 64), 128 + (cp % 64)>>
    ELSE IF cp < 65536
    THEN <<224 + (cp \div 4096), 128 + ((cp \div 64) % 64), 128 + (cp % 64)>>
    ELSE <<240 + (cp \div 262144), 128 + ((cp \div 4096) % 64),
           128 + ((cp \div 64) % 64), 128 + (cp % 64)>>

IsSurrogate(cp) == 55296 <= cp /\ cp <= 57343

RECURSIVE Utf8Bytes(_)
Utf8Bytes(text) ==
    IF text = <<>> THEN <<>>
    ELSE Utf8EncodeChar(Head(text)) \o Utf8Bytes(Tail(text))

Utf8Encode(text) ==
    IF \E i \in DOMAIN text : IsSurrogate(text[i])
    THEN [ok |-> FALSE, bytes |-> <<>>]
    ELSE [ok |-> TRUE, bytes |-> Utf8Bytes(text)]

(***************************************************************************)
(* str.replace: leftmost, non-overlapping occurrences                      *)
(***************************************************************************)
RECURSIVE ReplaceCRLF(_)
ReplaceCRLF(t) ==
    IF t = <<>> THEN <<>>
    ELSE IF Len(t) >= 2 /\ t[1] = CR /\ t[2] = LF
    THEN <<LF>> \o ReplaceCRLF(SubSeq(t, 3, Len(t)))
    ELSE <<t[1]>> \o ReplaceCRLF(Tail(t))

ReplaceCR(t) == [i \in DOMAIN t |-> IF t[i] = CR THEN LF ELSE t[i]]

\* variant: the two substitutions in the opposite order
NormalizeText_cr_first(t) == ReplaceCRLF(ReplaceCR(t))

\* variant: only the CRLF substitution
NormalizeText_crlf_only(t) == ReplaceCRLF(t)

\* text.replace('\r\n', '\n').replace('\r', '\n')
NormalizeText(t) == ReplaceCR(ReplaceCRLF(t))

\* variant: the file is rewritten whether or not the text changed
NeedsWrite_always(text, original_text) == TRUE

\* if text != original_text
NeedsWrite(text, original_text) == text # original_text

(***************************************************************************)
(* Normalizer                                                              *)
(*                                                                         *)
(* The result of one call: ret is the value returned, bytes the content    *)
(* of the file afterwards, opened whether the file was opened for writing  *)
(* (which truncates it), raised whether an exception left the function,    *)
(* msg the line printed by the function.                                   *)
(*                                                                         *)
(* io is the condition of the file on the file system:                     *)
(*   "ok"       reads and writes succeed                                   *)
(*   "noread"   open(file_path, 'rb') or read() raises                     *)
(*   "nowrite"  open(file_path, 'wb') raises, the file is left as it was   *)
(*   "nospace"  open(file_path, 'wb') succeeds and write() raises after k  *)
(*              bytes reached the file                                     *)
(***************************************************************************)
IOConditions == {"ok", "noread", "nowrite", "nospace"}

Min(a, b) == IF a < b THEN a ELSE b

\* variant: no except clause around the body
Caught_reraised(bytes, opened) ==
    [ret |-> FALSE, bytes |-> bytes, opened |-> opened, raised |-> TRUE,
     msg |-> "none"]

\* except Exception as e: print(...); return False
Caught(bytes, opened) ==
    [ret |-> FALSE, bytes |-> bytes, opened |-> opened, raised |-> FALSE,
     msg |-> "error"]

\* variant: True is returned for every file that was read
Unchanged_reported(bytes) ==
    [ret |-> TRUE, bytes |-> bytes, opened |-> FALSE, raised |-> FALSE,
     msg |-> "none"]

\* return False of line 71
Unchanged(bytes) ==
    [ret |-> FALSE, bytes |-> bytes, opened |-> FALSE, raised |-> FALSE,
     msg |-> "none"]

\* lines 50-57: UTF-8 first, latin-1 when that raises
Decode(content) ==
    TheOne({ IF u.ok THEN u ELSE Latin1Decode(content) :
             u \in {Utf8Decode(content)} })

\* lines 67-69: open(file_path, 'wb') truncates the file, then the encoded
\* text is written
WriteBack(content, text, io, k) ==
    IF io = "nowrite" THEN Caught(content, FALSE)
    ELSE TheOne({ IF ~e.ok THEN Caught(<<>>, TRUE)
                  ELSE IF io = "nospace"
                  THEN Caught(SubSeq(e.bytes, 1, Min(k, Len(e.bytes) - 1)), TRUE)
                  ELSE [ret |-> TRUE, bytes |-> e.bytes, opened |-> TRUE,
                        raised |-> FALSE, msg |-> "none"] :
                  e \in {Utf8Encode(text)} })

\* lines 59-71
Rewrite(content, original_text, io, k) ==
    TheOne({ IF NeedsWrite(text, original_text)
             THEN WriteBack(content, text, io, k)
             ELSE Unchanged(content) :
             text \in {NormalizeText(original_text)} })

normalize_line_endings(content, io, k) ==
    IF io = "noread" THEN Caught(content, FALSE)
    ELSE TheOne({ IF ~d.ok
                  THEN [ret |-> FALSE, bytes |-> content, opened |-> FALSE,
                        raised |-> FALSE, msg |-> "skipping"]
                  ELSE Rewrite(content, d.text, io, k) :
                  d \in {Decode(content)} })

(***************************************************************************)
(* The file system the tool runs on                                        *)
(*                                                                         *)
(* A start directory d0 holding a file f1 and a directory d1, which holds  *)
(* a file f2 and a directory d2, which holds a file f3.  The names, the    *)
(* contents and the I/O conditions are chosen by Init.                     *)
(***************************************************************************)
Dirs == {"d0", "d1", "d2"}
Files == {"f1", "f2", "f3"}

\* the sub-directories os.walk lists for directory d, in listing order
ScanDirs(d) ==
    CASE d = "d0" -> <<"d1">>
      [] d = "d1" -> <<"d2">>
      [] d = "d2" -> <<>>

\* the files os.walk lists for directory d, in listing order
ScanFiles(d) ==
    CASE d = "d0" -> <<"f1">>
      [] d = "d1" -> <<"f2">>
      [] d = "d2" -> <<"f3">>

\* the directories on the path of file f, the start directory first
DirsOnPath(f) ==
    CASE f = "f1" -> <<"d0">>
      [] f = "f2" -> <<"d0", "d1">>
      [] f = "f3" -> <<"d0", "d1", "d2">>

VARIABLES
    rootKind,         \* "missing", "file" or "dir": what start_dir names
    dname,            \* name of each directory
    fname,            \* name of each file
    io,               \* I/O condition of each file
    content,          \* bytes of each file
    pc,               \* "start", "walk", "done", "exited", "crashed"
    run,              \* number of the current invocation
    status,           \* exit status of the process, -1 while it runs
    stack,            \* directories os.walk has still to list
    pending,          \* files of the current directory still to iterate
    processed_count,
    changed_count,
    out,              \* lines printed so far, by kind
    visits,           \* times each file was reached by the loop of line 100
    dvisits,          \* times each directory was yielded by os.walk
    sel,              \* files passed to normalize_line_endings in this run
    chg,              \* files for which changed_count was incremented
    wopened,          \* files opened for writing in this run
    failed,           \* files whose normalization raised in this run
    content0,         \* bytes of each file when the run began
    prev_changed      \* changed_count at the end of the previous run

fsvars == <<rootKind, dname, fname, io>>
ghost == <<visits, dvisits, sel, chg, wopened, failed, content0, prev_changed>>
vars == <<rootKind, dname, fname, io, content, pc, run, status, stack, pending,
          processed_count, changed_count, out, visits, dvisits, sel, chg,
          wopened, failed, content0, prev_changed>>

(***************************************************************************)
(* Initial file systems                                                    *)
(***************************************************************************)
BoundedSeq(S, n) == UNION {[1..m -> S] : m \in 0..n}

\* LF, CR, 'a', and bytes that form both well-formed and ill-formed UTF-8:
\* C3 A9 is U+00E9, E9 A9 A9 is U+9A69, a lone A9, C3 or E9 is ill-formed
ByteAlphabet == {10, 13, 97, 169, 195, 233}
Contents == BoundedSeq(ByteAlphabet, MaxLen)

NameAlphabet == {".", "j", "s", "J"}
SpecialNames ==
    { <<".","e","n","v">>,
      <<".","e","n","v",".","l","o","c","a","l">>,
      <<".","g","i","t","i","g","n","o","r","e">>,
      <<".","g","i","t","a","t","t","r","i","b","u","t","e","s">>,
      <<".","g","i","t","k","e","e","p">>,
      <<"x",".","e","n","v">>,
      <<"a",".","J","S">>,
      <<"a",".","T","x","t">>,
      <<"b",".","b","i","n">>,
      <<"M","a","k","e","f","i","l","e">> }
\* "." and ".." are not names of files
Names ==
    ((BoundedSeq(NameAlphabet, MaxNameLen) \ {<<>>, <<".">>, <<".", ".">>})
     \cup SpecialNames)

\* b"a\r\nb\rc\n"
ExampleBytes == <<97, 13, 10, 98, 13, 99, 10>>

Profiles ==
    { [name |-> <<"a",".","j","s">>, content |-> <<97, 10>>, io |-> "ok"],
      [name |-> <<"a",".","J","S">>, content |-> ExampleBytes, io |-> "ok"],
      [name |-> <<".","e","n","v">>, content |-> <<233, 13, 10>>, io |-> "ok"],
      [name |-> <<"a",".","j","s">>, content |-> <<97, 13>>, io |-> "noread"],
      [name |-> <<"a",".","j","s">>, content |-> <<97, 13, 10>>, io |-> "nowrite"],
      [name |-> <<"a",".","j","s">>, content |-> <<195, 169, 13, 97>>, io |-> "nospace"],
      [name |-> <<"b",".","b","i","n">>, content |-> <<13>>, io |-> "ok"],
      [name |-> <<".","e","n","v",".","l","o","c","a","l">>,
       content |-> <<13, 10>>, io |-> "ok"] }

DefaultDirNames == [d \in Dirs |-> CASE d = "d0" -> "proj" [] d = "d1" -> "src"
                                     [] d = "d2" -> "lib"]
DirNameChoices ==
    { n \in [Dirs -> {"proj", "dist", "src", "node_modules", "lib", "env"}] :
        /\ n["d0"] \in {"proj", "dist"}
        /\ n["d1"] \in {"src", "node_modules"}
        /\ n["d2"] \in {"lib", "env"} }

DefaultProfile(f) ==
    CASE f = "f1" -> [name |-> <<"a",".","j","s">>, content |-> <<97, 10>>, io |-> "ok"]
      [] f = "f2" -> [name |-> <<"a",".","J","S">>, content |-> ExampleBytes, io |-> "ok"]
      [] f = "f3" -> [name |-> <<"b",".","b","i","n">>, content |-> <<13>>, io |-> "ok"]

\* the program state once the file system fs = [kind, dn, prof] is fixed
InitWith(kind, dn, prof) ==
    /\ rootKind = kind
    /\ dname = dn
    /\ fname = [f \in Files |-> prof[f].name]
    /\ io = [f \in Files |-> prof[f].io]
    /\ content = [f \in Files |-> prof[f].content]
    /\ content0 = [f \in Files |-> prof[f].content]
    /\ pc = "start"
    /\ run = 1
    /\ status = -1
    /\ stack = <<>>
    /\ pending = <<>>
    /\ processed_count = 0
    /\ changed_count = 0
    /\ out = <<>>
    /\ visits = [f \in Files |-> 0]
    /\ dvisits = [d \in Dirs |-> 0]
    /\ sel = {}
    /\ chg = {}
    /\ wopened = {}
    /\ failed = {}
    /\ prev_changed = 0

\* trees whose directory names and files vary
InitTree ==
    \E dn \in DirNameChoices, prof \in [Files -> Profiles] :
        InitWith("dir", dn, prof)

\* one file with every short content under every I/O condition
InitBytes ==
    \E c \in Contents, i \in IOConditions :
        InitWith("dir", DefaultDirNames,
                 [f \in Files |-> IF f = "f1"
                                  THEN [name |-> <<"a",".","j","s">>,
                                        content |-> c, io |-> i]
                                  ELSE DefaultProfile(f)])

\* one file with every short name
InitNames ==
    \E n \in Names :
        InitWith("dir", DefaultDirNames,
                 [f \in Files |-> IF f = "f1"
                                  THEN [name |-> n, content |-> <<97, 13, 10>>,
                                        io |-> "ok"]
                                  ELSE DefaultProfile(f)])

\* a start directory that does not exist, or that is a regular file
InitRoot ==
    \E kind \in {"missing", "file"}, dn \in DirNameChoices :
        InitWith(kind, dn, [f \in Files |-> DefaultProfile(f)])

Init == InitTree \/ InitBytes \/ InitNames \/ InitRoot

\* the trees the termination properties are checked on
LiveProfiles ==
    { p \in Profiles :
        \/ p.io \in {"noread", "nospace"}
        \/ p.name \in {<<"a",".","j","s">>, <<"a",".","J","S">>, <<"b",".","b","i","n">>} }

InitLive ==
    \/ \E dn \in DirNameChoices, prof \in [Files -> LiveProfiles] :
            InitWith("dir", dn, prof)
    \/ InitRoot

(***************************************************************************)
(* main()                                                                  *)
(***************************************************************************)
\* variant: only a directory counts as existing
start_dir_exists_isdir == rootKind = "dir"

\* start_dir.exists()
start_dir_exists == rootKind # "missing"

\* variant: the list of sub-directories is left as os.walk produced it
PruneDirs_none(dirs) == dirs

\* dirs[:] = [d for d in dirs if d not in EXCLUDED_DIRS]
PruneDirs(dirs) == SelectSeq(dirs, LAMBDA d : dname[d] \notin EXCLUDED_DIRS)

\* variant: the files of the start directory are skipped
WalkFiles_skip_top(d) == IF d = "d0" THEN <<>> ELSE ScanFiles(d)

\* the files list os.walk yields for directory d
WalkFiles(d) == ScanFiles(d)

\* what os.walk(start_dir) starts from: scandir of a regular file fails,
\* os.walk ignores the error and yields nothing
WalkStart == IF rootKind = "dir" THEN <<"d0">> ELSE <<>>

\* lines 83-85: the start directory does not exist
ExitMissing ==
    /\ pc = "start"
    /\ ~start_dir_exists
    /\ pc' = "exited"
    /\ status' = 1
    /\ out' = Append(out, "error")
    /\ UNCHANGED <<fsvars, ghost, content, run, stack, pending,
                   processed_count, changed_count>>

\* lines 87-95: the banner, the counters, the call of os.walk
BeginWalk ==
    /\ pc = "start"
    /\ start_dir_exists
    /\ pc' = "walk"
    /\ out' = Append(out, "scanning")
    /\ processed_count' = 0
    /\ changed_count' = 0
    /\ stack' = WalkStart
    /\ pending' = <<>>
    /\ UNCHANGED <<fsvars, ghost, content, run, status>>

\* lines 95-97: os.walk yields the next directory, its sub-directories are
\* pruned in place and the pruned list is what os.walk descends into
WalkDir ==
    /\ pc = "walk"
    /\ pending = <<>>
    /\ stack # <<>>
    /\ LET d == Head(stack)
       IN  /\ stack' = PruneDirs(ScanDirs(d)) \o Tail(stack)
           /\ pending' = WalkFiles(d)
           /\ dvisits' = [dvisits EXCEPT ![d] = @ + 1]
    /\ UNCHANGED <<fsvars, content, pc, run, status, processed_count,
                   changed_count, out, visits, sel, chg, wopened, failed,
                   content0, prev_changed>>

\* the lines normalize_line_endings and main print for one file
FileLines(r) ==
    (IF r.msg = "none" THEN <<>> ELSE <<r.msg>>)
    \o (IF r.ret /\ ~r.raised THEN <<"normalized">> ELSE <<>>)

\* lines 100-109: one iteration of the loop over the files of a directory
VisitFile ==
    /\ pc = "walk"
    /\ pending # <<>>
    /\ \E f \in {Head(pending)} :
           /\ visits' = [visits EXCEPT ![f] = @ + 1]
           /\ IF should_process_file(fname[f])
              THEN \E k \in (IF io[f] = "nospace" THEN 0..MaxShort ELSE {0}) :
                   \E r \in {normalize_line_endings(content[f], io[f], k)} :
                       /\ processed_count' = processed_count + 1
                       /\ sel' = sel \cup {f}
                       /\ content' = [content EXCEPT ![f] = r.bytes]
                       /\ wopened' = IF r.opened THEN wopened \cup {f} ELSE wopened
                       /\ failed' = IF r.raised \/ r.msg = "error"
                                     THEN failed \cup {f} ELSE failed
                       /\ out' = out \o FileLines(r)
                       /\ IF r.raised
                          THEN \* the exception leaves main: traceback, status 1
                               /\ pc' = "crashed"
                               /\ status' = 1
                               /\ pending' = <<>>
                               /\ UNCHANGED <<changed_count, chg>>
                          ELSE /\ pending' = Tail(pending)
                               /\ changed_count' =
                                      IF r.ret THEN changed_count + 1
                                      ELSE changed_count
                               /\ chg' = IF r.ret THEN chg \cup {f} ELSE chg
                               /\ UNCHANGED <<pc, status>>
              ELSE /\ pending' = Tail(pending)
                   /\ UNCHANGED <<content, pc, status, processed_count,
                                  changed_count, out, sel, chg, wopened,
                                  failed>>
    /\ UNCHANGED <<fsvars, run, stack, dvisits, content0, prev_changed>>

\* lines 111-117: the walk is over, the summary is printed, main returns
Summary ==
    /\ pc = "walk"
    /\ pending = <<>>
    /\ stack = <<>>
    /\ pc' = "done"
    /\ status' = 0
    /\ out' = Append(out, "summary")
    /\ UNCHANGED <<fsvars, ghost, content, run, stack, pending,
                   processed_count, changed_count>>

\* the tool is invoked again on the tree the previous invocation left
Rerun ==
    /\ pc \in {"done", "exited", "crashed"}
    /\ run < MaxRuns
    /\ run' = run + 1
    /\ pc' = "start"
    /\ status' = -1
    /\ stack' = <<>>
    /\ pending' = <<>>
    /\ processed_count' = 0
    /\ changed_count' = 0
    /\ out' = <<>>
    /\ visits' = [f \in Files |-> 0]
    /\ dvisits' = [d \in Dirs |-> 0]
    /\ sel' = {}
    /\ chg' = {}
    /\ wopened' = {}
    /\ failed' = {}
    /\ content0' = content
    /\ prev_changed' = changed_count
    /\ UNCHANGED <<fsvars, content>>

Next ==
    \/ ExitMissing
    \/ BeginWalk
    \/ WalkDir
    \/ VisitFile
    \/ Summary
    \/ Rerun

Spec == Init /\ [][Next]_vars

\* the process is sequential and runs to its end; a further invocation is
\* up to the user
FairSpec ==
    /\ InitLive
    /\ [][Next]_vars
    /\ WF_vars(ExitMissing \/ BeginWalk \/ WalkDir \/ VisitFile \/ Summary)

TypeOK ==
    /\ rootKind \in {"missing", "file", "dir"}
    /\ pc \in {"start", "walk", "done", "exited", "crashed"}
    /\ run \in 1..MaxRuns
    /\ status \in {-1, 0, 1}
    /\ processed_count \in 0..Cardinality(Files)
    /\ changed_count \in 0..Cardinality(Files)
    /\ prev_changed \in 0..Cardinality(Files)
    /\ sel \subseteq Files /\ chg \subseteq Files /\ wopened \subseteq Files
    /\ failed \subseteq Files

(***************************************************************************)
(* Vocabulary of the properties                                            *)
(***************************************************************************)
HasCR(b) == \E i \in DOMAIN b : b[i] = CR

CountOf(b, v) == Cardinality({i \in DOMAIN b : b[i] = v})

CountCRLF(b) ==
    Cardinality({i \in DOMAIN b : b[i] = CR /\ i + 1 \in DOMAIN b /\ b[i + 1] = LF})

\* line boundaries of a byte sequence: every CRLF pair, every CR not
\* followed by LF, every LF not preceded by CR
LineBoundaries(b) == CountOf(b, CR) + CountOf(b, LF) - CountCRLF(b)

\* the bytes of b with each CRLF pair and each other CR turned into one LF,
\* read off the bytes in one pass
RECURSIVE BytesWithLF(_)
BytesWithLF(b) ==
    IF b = <<>> THEN <<>>
    ELSE IF b[1] # CR THEN <<b[1]>> \o BytesWithLF(Tail(b))
    ELSE IF Len(b) >= 2 /\ b[2] = LF
    THEN <<LF>> \o BytesWithLF(SubSeq(b, 3, Len(b)))
    ELSE <<LF>> \o BytesWithLF(Tail(b))

\* some directory on the path of f, from position first on, has an
\* excluded name (position 1 is the start directory itself)
ExcludedFrom(f, first) ==
    \E i \in DOMAIN DirsOnPath(f) :
        i >= first /\ dname[DirsOnPath(f)[i]] \in EXCLUDED_DIRS

\* directory d is inside the subtree of an excluded directory below the
\* start directory, or is such a directory
DirExcluded(d) ==
    \/ d = "d1" /\ dname["d1"] \in EXCLUDED_DIRS
    \/ d = "d2" /\ (dname["d1"] \in EXCLUDED_DIRS \/ dname["d2"] \in EXCLUDED_DIRS)

Modified == {f \in Files : content[f] # content0[f]}

(***************************************************************************)
(* C1: a selected file without any CR byte is not opened for writing,      *)
(* keeps its bytes and is not counted as changed, whether it decodes as    *)
(* UTF-8 or only as latin-1.                                               *)
(***************************************************************************)
C1_NoCRUntouched ==
    \A f \in Files :
        (f \in sel /\ ~HasCR(content0[f])) =>
            /\ f \notin wopened
            /\ content[f] = content0[f]
            /\ f \notin chg
            /\ changed_count = Cardinality(chg)

C1_Witness ==
    /\ pc = "done"
    /\ "f1" \in sel
    /\ content0["f1"] = <<233, 10>>
    /\ ~Utf8Decode(content0["f1"]).ok
    /\ io["f1"] = "ok"

(***************************************************************************)
(* C2 as stated: every selected file that held a CR holds none once it     *)
(* was processed, has as many LFs as it had line boundaries, and is        *)
(* counted as changed.                                                     *)
(***************************************************************************)
C2_AsStated ==
    \A f \in Files :
        (f \in sel /\ HasCR(content0[f])) =>
            /\ ~HasCR(content[f])
            /\ CountOf(content[f], LF) = LineBoundaries(content0[f])
            /\ f \in chg

(***************************************************************************)
(* C2 amended: the same, for the files that are read and written without   *)
(* an I/O error; the example a CRLF b CR c LF becomes a LF b LF c LF.      *)
(***************************************************************************)
C2_CRRemoved ==
    \A f \in Files :
        (f \in sel /\ HasCR(content0[f]) /\ io[f] = "ok") =>
            /\ ~HasCR(content[f])
            /\ CountOf(content[f], LF) = LineBoundaries(content0[f])
            /\ f \in chg
            /\ changed_count = Cardinality(chg)
            /\ (content0[f] = ExampleBytes =>
                    content[f] = <<97, 10, 98, 10, 99, 10>>)

C2_Witness ==
    /\ pc = "done"
    /\ "f2" \in sel
    /\ content0["f2"] = ExampleBytes
    /\ content["f2"] = <<97, 10, 98, 10, 99, 10>>
    /\ changed_count = 1

(***************************************************************************)
(* C3: an invocation that follows another one on the same tree opens no    *)
(* file for writing, changes no byte and counts no file as changed.        *)
(***************************************************************************)
C3_Idempotent ==
    run >= 2 =>
        /\ wopened = {}
        /\ Modified = {}
        /\ changed_count = 0

C3_Witness ==
    /\ run = 2
    /\ pc = "done"
    /\ prev_changed >= 1
    /\ fname["f1"] = <<".","e","n","v">>
    /\ "f1" \in sel
    /\ content["f1"] = <<195, 169, 10>>

(***************************************************************************)
(* C4 as stated: a file with an excluded directory name anywhere on its    *)
(* path, the start directory included, is never reached, selected, read    *)
(* or written, and processed does not count it.                            *)
(***************************************************************************)
C4_AsStated ==
    \A f \in Files :
        ExcludedFrom(f, 1) =>
            /\ visits[f] = 0
            /\ f \notin sel
            /\ f \notin wopened
            /\ content[f] = content0[f]

(***************************************************************************)
(* C4 amended: the same for an excluded directory name on the path below   *)
(* the start directory, at any depth; the name of the start directory      *)
(* itself is not checked.                                                  *)
(***************************************************************************)
C4_ExcludedBelowRoot ==
    /\ \A f \in Files :
        ExcludedFrom(f, 2) =>
            /\ visits[f] = 0
            /\ f \notin sel
            /\ f \notin wopened
            /\ content[f] = content0[f]
    /\ processed_count = Cardinality(sel)
    /\ \A d \in Dirs : DirExcluded(d) => dvisits[d] = 0

C4_Witness ==
    /\ pc = "done"
    /\ dname["d1"] = "src"
    /\ dname["d2"] = "env"
    /\ should_process_file(fname["f3"])
    /\ HasCR(content["f3"])
    /\ io["f3"] = "ok"
    /\ "f2" \in sel
    /\ processed_count = Cardinality(sel)

(***************************************************************************)
(* C5: a visited file is selected exactly when the lower-cased extension   *)
(* of its name is recognized, or the name has no extension, starts with a  *)
(* dot and is one of .env, .gitignore, .gitattributes; .env is selected,   *)
(* .env.local is not; a file that is not selected is left as it was.       *)
(***************************************************************************)
C5_Selector ==
    \A f \in Files :
        visits[f] >= 1 =>
            /\ f \in sel <=>
                  \/ Lower(Suffix(fname[f])) \in EXTENSIONS
                  \/ /\ Suffix(fname[f]) = <<>>
                     /\ fname[f][1] = "."
                     /\ fname[f] \in DOTFILES
            /\ fname[f] = <<".","e","n","v">> => f \in sel
            /\ fname[f] = <<".","e","n","v",".","l","o","c","a","l">> => f \notin sel
            /\ f \notin sel => content[f] = content0[f]

C5_Witness ==
    /\ pc = "done"
    /\ fname["f1"] = <<".","e","n","v">>
    /\ "f1" \in sel
    /\ fname["f2"] = <<"a",".","J","S">>
    /\ "f2" \in sel
    /\ fname["f3"] = <<".","e","n","v",".","l","o","c","a","l">>
    /\ visits["f3"] = 1
    /\ "f3" \notin sel

(***************************************************************************)
(* C6: the exit status is non-zero exactly when the start directory does   *)
(* not exist; then only the error is printed and no directory is listed    *)
(* and no file reached, read or written; otherwise the process runs to     *)
(* the summary and ends with status 0.                                     *)
(***************************************************************************)
C6_StatusInv ==
    /\ status = 1 <=> (pc = "exited" /\ rootKind = "missing")
    /\ status = 0 <=> (pc = "done" /\ rootKind # "missing")
    /\ rootKind = "missing" =>
          /\ pc \in {"start", "exited"}
          /\ \A d \in Dirs : dvisits[d] = 0
          /\ \A f \in Files : visits[f] = 0
          /\ sel = {} /\ wopened = {} /\ Modified = {}
          /\ stack = <<>> /\ pending = <<>>
    /\ pc = "exited" => out = <<"error">>
    /\ pc = "done" => (Len(out) >= 2 /\ out[Len(out)] = "summary")
    /\ pc # "crashed"

C6_ExitStatus ==
    /\ []C6_StatusInv
    /\ [](pc = "start" /\ rootKind = "missing" => <>(pc = "exited" /\ status = 1))
    /\ [](pc = "start" /\ rootKind # "missing" => <>(pc = "done" /\ status = 0))

C6_Witness ==
    /\ pc = "done"
    /\ status = 0
    /\ rootKind = "file"
    /\ processed_count = 0

(***************************************************************************)
(* C7: a failure while one file is read or written does not end the run:   *)
(* the file is counted in processed and not in changed, and every other    *)
(* file is reached, selected and normalized as it would be on its own.     *)
(***************************************************************************)
C7_FailureIsolated ==
    /\ pc # "crashed"
    /\ failed \subseteq sel
    /\ failed \cap chg = {}
    /\ processed_count = Cardinality(sel)
    /\ changed_count = Cardinality(chg)
    /\ pc = "done" /\ rootKind = "dir" =>
          \A f \in Files :
              /\ ~ExcludedFrom(f, 2) => visits[f] = 1
              /\ (~ExcludedFrom(f, 2) /\ should_process_file(fname[f])) => f \in sel
              /\ (f \in sel /\ io[f] = "ok") =>
                    LET alone == normalize_line_endings(content0[f], "ok", 0)
                    IN  /\ content[f] = alone.bytes
                        /\ f \in chg <=> alone.ret
                        /\ HasCR(content0[f]) => f \in chg

C7_Witness ==
    /\ pc = "done"
    /\ run = 1
    /\ "f1" \in failed
    /\ io["f1"] = "noread"
    /\ "f2" \in failed
    /\ io["f2"] = "nospace"
    /\ "f3" \in chg
    /\ processed_count = 3
    /\ changed_count = 1

(***************************************************************************)
(* C8 as stated: 0 <= changed <= processed, processed counts the selected  *)
(* files, changed counts the files for which True was returned, and        *)
(* changed is the number of files whose bytes the run altered.             *)
(***************************************************************************)
C8_AsStated ==
    /\ 0 <= changed_count
    /\ changed_count <= processed_count
    /\ processed_count = Cardinality(sel)
    /\ changed_count = Cardinality(chg)
    /\ changed_count = Cardinality(Modified)

(***************************************************************************)
(* C8 amended: the same, except that changed is the number of files whose  *)
(* rewrite completed; a file whose write failed after it was opened for    *)
(* writing is altered and not counted.  Within a run neither counter       *)
(* decreases, and each moves by at most one per file.                      *)
(***************************************************************************)
C8_CountersInv ==
    /\ 0 <= changed_count
    /\ changed_count <= processed_count
    /\ processed_count = Cardinality(sel)
    /\ sel = {f \in Files : visits[f] >= 1 /\ should_process_file(fname[f])}
    /\ \A f \in Files : visits[f] <= 1
    /\ changed_count = Cardinality(chg)
    /\ chg = wopened \ failed
    /\ changed_count = Cardinality(Modified \ failed)
    /\ Modified \subseteq wopened

C8_Counters ==
    /\ []C8_CountersInv
    /\ [][run' = run =>
            /\ processed_count' \in {processed_count, processed_count + 1}
            /\ changed_count' \in {changed_count, changed_count + 1}
            /\ changed_count' = changed_count + 1 =>
                  processed_count' = processed_count + 1]_vars

C8_Witness ==
    /\ pc = "done"
    /\ processed_count = 3
    /\ changed_count = 1
    /\ Cardinality(Modified) = 2
    /\ Cardinality(failed) = 2

(***************************************************************************)
(* C9: with an existing start directory the walk ends, and when it has     *)
(* ended every file outside the excluded subtrees was reached exactly      *)
(* once; no file is ever reached twice, and no directory or file inside    *)
(* an excluded subtree is ever reached.                                    *)
(***************************************************************************)
C9_VisitsInv ==
    /\ \A f \in Files :
          /\ visits[f] <= 1
          /\ ExcludedFrom(f, 2) => visits[f] = 0
    /\ \A d \in Dirs :
          /\ dvisits[d] <= 1
          /\ DirExcluded(d) => dvisits[d] = 0
    /\ pc = "done" /\ rootKind = "dir" =>
          /\ \A f \in Files : ~ExcludedFrom(f, 2) => visits[f] = 1
          /\ \A d \in Dirs : ~DirExcluded(d) => dvisits[d] = 1

C9_Traversal ==
    /\ []C9_VisitsInv
    /\ [](pc = "walk" => <>(pc = "done"))

C9_Witness ==
    /\ pc = "done"
    /\ rootKind = "dir"
    /\ dname["d1"] = "src"
    /\ dname["d2"] = "env"
    /\ visits = [f \in Files |-> IF f = "f3" THEN 0 ELSE 1]
    /\ dvisits = [d \in Dirs |-> IF d = "d2" THEN 0 ELSE 1]

(***************************************************************************)
(* C10: the bytes of a rewritten file are the bytes it had, with each      *)
(* CRLF and each other CR turned into one LF and every other byte kept,    *)
(* also when the file is not valid UTF-8.                                  *)
(***************************************************************************)
C10_BytesPreserved ==
    \A f \in chg : content[f] = BytesWithLF(content0[f])

====
